---- MODULE Spec2Model ----
(***************************************************************************)
(* A model of the Keepa client: the token budget (updateTokens,            *)
(* waitForTokens, calculateDynamicBatchSize), the retrying request         *)
(* (doRequest) behind ProductFinder and ProductRequest, the cache-aside    *)
(* loop of handleFetchProducts, and the bounded-concurrency pipeline       *)
(* fetchProductDetails.  Time is in milliseconds, as in LastTimestamp.     *)
(***************************************************************************)
EXTENDS Integers, Sequences, FiniteSets, TLC

\* ------------------------------------------------------------------ bounds
\* The clock may run on for at most MaxTicks * 12000 ms past LastTimestamp
\* before the client next touches the budget.
MaxTicks == 2
\* The categories of KEEPA_CATEGORY, and the longest list a discovery returns.
NumCategories == 2
MaxAsins == 2
\* The longest list handed to fetchProductDetails.
MaxItems == 2
\* The largest number of ASINs the cost functions are evaluated on.
MaxSize == 250

\* ------------------------------------------------------- program constants
InitialTokens == 300
TokenCap == 300
RefillRate == 5
SafetyThreshold == 10
MaxRetries == 3
pageSize == 50
maxConcurrent == 5

\* ------------------------------------------------------------ environment
\* What the upstream may put in a response body, and how far its clock may
\* run ahead of the local one.  The client validates none of these.
ServerTokens == {-2, 5, 12, 301}
ServerAhead == {0, 24000}
RefillIns == {0, 500}
Statuses == {200, 201, 429, 500}
BatchMaxes == {0, 1, 100}
Ticks == {6000, 12000}
AllCallers == {1, 2}
ASINs == {"B01", "B02"}

NoResp == [kind |-> "none", status |-> 0, tokensLeft |-> 0, ahead |-> 0, refillIn |-> 0]

VARIABLES
  TokensLeft,     \* KeepaClient.TokensLeft
  sinceLast,      \* time.Now() in ms minus KeepaClient.LastTimestamp
  callers,        \* the goroutines that call into this client
  pc,             \* per caller: where it is in doRequest
  method,         \* per caller: doRequest's method argument
  requiredTokens, \* per caller: doRequest's requiredTokens argument
  retry,          \* per caller: the loop variable of doRequest
  sleepLeft,      \* per caller: what is left of its time.Sleep, in ms
  resp,           \* per caller: the last answer of the upstream
  outcome,        \* per caller: what doRequest returned
  sends,          \* per caller, history: requests sent in this invocation
  waited,         \* per caller, history: it slept in waitForTokens before the request in flight
  sleepMs,        \* per caller, history: the argument of its last backoff sleep
  checked,        \* per caller, history: TokensLeft at line 106, kept until the first answer
  waitRefillIn,   \* per caller: the refillIn argument of its call of waitForTokens
  batchSize,      \* the last result of calculateDynamicBatchSize
  requestedMax,   \* the maxBatchSize argument of that call
  asinCount,      \* the numASINs argument of the cost function last evaluated by itself
  \* handleFetchProducts, run by caller 1
  hpc,            \* where the handler is
  cat,            \* the index of the category of the loop of line 341
  asins,          \* the list ProductFinder returned for this category
  idx,            \* the index of the item of the loop of line 358
  lookup,         \* what getProductFromRedis gave for this item
  cache,          \* the keys Redis holds
  saved,          \* what saveProductToRedis gave for this item
  persisted,      \* what firestoreFunction gave for this item
  logged,         \* the failure the handler has written to the log for this item
  fetchFailed,    \* history: ProductRequest has failed for an item of this run
  reply,          \* what c.JSON sent
  \* fetchProductDetails
  asinList,       \* its argument
  dpc,            \* where the dispatching loop is
  di,             \* the index of the item the loop is at
  wg,             \* the counter of the WaitGroup
  semaphore,      \* the number of elements in the channel
  mutex,          \* the worker that holds the mutex, or 0
  wpc,            \* per item: where its goroutine is
  fate,           \* per item: how its fetch ended
  results,        \* the shared slice
  returned        \* what fetchProductDetails returned

budgetVars == <<TokensLeft, sinceLast>>
reqVars == <<pc, method, requiredTokens, retry, sleepLeft, resp, outcome, sends, waited,
            sleepMs, checked, waitRefillIn>>
clientVars == <<TokensLeft, sinceLast, callers, pc, method, requiredTokens, retry, sleepLeft,
                resp, outcome, sends, waited, sleepMs, checked, waitRefillIn, batchSize, requestedMax, asinCount>>
handlerVars == <<hpc, cat, asins, idx, lookup, cache, saved, persisted, logged, fetchFailed, reply>>
pipeVars == <<asinList, dpc, di, wg, semaphore, mutex, wpc, fate, results, returned>>
vars == <<clientVars, handlerVars, pipeVars>>

\* -------------------------------------------------------------- arithmetic
Max(a, b) == IF a >= b THEN a ELSE b
Min(a, b) == IF a <= b THEN a ELSE b

\* Go's int(f): the float is truncated toward zero.
TruncDiv(a, b) == IF a >= 0 THEN a \div b ELSE -((-a) \div b)

\* A backoff term that does not grow with the attempts.
Pow2Flat(n) == 1

\* math.Pow(2, float64(retry)) for the values retry takes.
Pow2(n) == 2^n

\* ----------------------------------------------------------- request cost
\* A cost whose extra part is rounded down.
calculateProductFinderTokensFloor(numASINs) == 10 + numASINs \div 100

\* redis.go lines 46-50.
calculateProductFinderTokens(numASINs) == 10 + (numASINs + 99) \div 100

\* redis.go lines 53-55.

calculateProductRequestTokens(numASINs) == numASINs * 2

\* ------------------------------------------------------------ TokenBudget
\* Only differences of timestamps enter the program, so the model keeps
\* sinceLast = now - LastTimestamp in place of the two instants: a call
\* updateTokens(time.Now()) has timeDiffMs = sinceLast and leaves sinceLast = 0;
\* the adoption of a server timestamp that is `ahead` of now leaves -ahead.

\* A rounding toward minus infinity in place of the truncation.
tokensRecoveredFloor(timeDiffMs) == (timeDiffMs * RefillRate) \div 60000

\* Line 39 and the int() of line 41.  In float64, (timeDiffMs / 1000.0) *
\* (RefillRate / 60.0) truncates to the exact quotient for every
\* |timeDiffMs| up to an hour.
tokensRecovered(timeDiffMs) == TruncDiv(timeDiffMs * RefillRate, 60000)

\* Lines 41-45.
recoveredTokensLeft(tokens, timeDiffMs) ==
  LET t == tokens + tokensRecovered(timeDiffMs)
  IN  IF t > TokenCap THEN TokenCap ELSE t

\* updateTokens(currentTimestamp), with timeDiffMs = currentTimestamp - LastTimestamp.
updateTokens(timeDiffMs) ==
  /\ TokensLeft' = recoveredTokensLeft(TokensLeft, timeDiffMs)
  /\ sinceLast' = 0

\* An adoption that never lowers the local estimate.
reconcileKeepLarger(r) ==
  /\ TokensLeft' = Max(TokensLeft, r.tokensLeft)
  /\ sinceLast' = 0 - r.ahead

\* The adoption of the server's values at lines 152-153 and 199-200.
reconcile(r) ==
  /\ TokensLeft' = r.tokensLeft
  /\ sinceLast' = 0 - r.ahead

\* A wait that ignores the refillIn it is given.
waitForTokensMsNoHint(tokens, required, refillIn) ==
  IF tokens >= required THEN -1
  ELSE (required - tokens) * (60000 \div RefillRate)

\* waitForTokens up to its time.Sleep: the sleep in ms, or -1 for the early return.
waitForTokensMs(tokens, required, refillIn) ==
  IF tokens >= required THEN -1
  ELSE IF refillIn > 0 THEN refillIn
  ELSE (required - tokens) * (60000 \div RefillRate)

\* A backoff that takes the larger of the server's hint and the local estimate.
retryWaitMsMax(r, tokens, required, k) ==
  Max(r.refillIn, (required + SafetyThreshold - tokens) * (60000 \div RefillRate))
    + Pow2(k) * 1000

\* Lines 163-169: the argument of the sleep after a 429, in ms.
retryWaitMs(r, tokens, required, k) ==
  LET baseWait == IF r.refillIn > 0 THEN r.refillIn
                  ELSE (required + SafetyThreshold - tokens) * (60000 \div RefillRate)
  IN  baseWait + Pow2(k) * 1000

\* A planner that does not look at maxBatchSize.
dynamicBatchSizeNoCap(tokens, maxBatchSize) ==
  LET availableTokens == tokens - SafetyThreshold
      maxASINs == TruncDiv(availableTokens, 2)
  IN  IF availableTokens <= 0 THEN 1
      ELSE Max(1, maxASINs)

\* A planner that rounds the quotient up.
dynamicBatchSizeRoundUp(tokens, maxBatchSize) ==
  LET availableTokens == tokens - SafetyThreshold
      maxASINs == (availableTokens + 1) \div 2
  IN  IF availableTokens <= 0 THEN 1
      ELSE Max(1, Min(maxASINs, maxBatchSize))

\* Lines 82-97: calculateDynamicBatchSize after its updateTokens.
dynamicBatchSize(tokens, maxBatchSize) ==
  LET availableTokens == tokens - SafetyThreshold
      maxASINs == TruncDiv(availableTokens, 2)
  IN  IF availableTokens <= 0 THEN 1
      ELSE Max(1, Min(maxASINs, maxBatchSize))

\* ------------------------------------------------------------------- Init
InitReq ==
  /\ pc = [c \in AllCallers |-> "idle"]
  /\ method = [c \in AllCallers |-> "GET"]
  /\ requiredTokens = [c \in AllCallers |-> 0]
  /\ retry = [c \in AllCallers |-> 0]
  /\ sleepLeft = [c \in AllCallers |-> 0]
  /\ resp = [c \in AllCallers |-> NoResp]
  /\ outcome = [c \in AllCallers |-> "none"]
  /\ sends = [c \in AllCallers |-> 0]
  /\ waited = [c \in AllCallers |-> FALSE]
  /\ sleepMs = [c \in AllCallers |-> 0]
  /\ checked = [c \in AllCallers |-> 0]
  /\ waitRefillIn = [c \in AllCallers |-> 0]

\* NewKeepaClient
InitClient ==
  /\ TokensLeft = InitialTokens
  /\ sinceLast = 0
  /\ batchSize = 0
  /\ requestedMax = 0
  /\ asinCount = 0

\* ------------------------------------------------------------------ clock
\* d ms pass for everyone: the sleepers have d ms less to sleep.
elapse(d) ==
  /\ sinceLast' = sinceLast + d
  /\ sleepLeft' = [c \in AllCallers |-> Max(0, sleepLeft[c] - d)]

Tick ==
  /\ \E d \in Ticks : sinceLast + d <= MaxTicks * 12000 /\ elapse(d)
  /\ UNCHANGED <<TokensLeft, callers, pc, method, requiredTokens, retry, resp, outcome,
                 sends, waited, sleepMs, checked, waitRefillIn, batchSize, requestedMax, asinCount>>

\* The sleep of caller c ends and c calls updateTokens(time.Now()).
wakeAndUpdate(c) ==
  /\ updateTokens(sinceLast + sleepLeft[c])
  /\ sleepLeft' = [d \in AllCallers |-> Max(0, sleepLeft[d] - sleepLeft[c])]

\* ---------------------------------------------------------------- planner
\* Lines 76-98, called by a goroutine that is not inside doRequest.
calculateDynamicBatchSize(c) ==
  /\ pc[c] = "idle"
  /\ pc' = [pc EXCEPT ![c] = "planned"]
  /\ \E maxBatchSize \in BatchMaxes :
       /\ updateTokens(sinceLast)
       /\ batchSize' = dynamicBatchSize(TokensLeft', maxBatchSize)
       /\ requestedMax' = maxBatchSize
  /\ UNCHANGED <<callers, method, requiredTokens, retry, sleepLeft, resp, outcome, sends,
                 waited, sleepMs, checked, waitRefillIn, asinCount>>

\* -------------------------------------------------------------- doRequest
\* A call of doRequest: line 101.
Invoke(c, m, required) ==
  /\ pc[c] = "idle"
  /\ pc' = [pc EXCEPT ![c] = "begin"]
  /\ method' = [method EXCEPT ![c] = m]
  /\ requiredTokens' = [requiredTokens EXCEPT ![c] = required]
  /\ UNCHANGED <<retry, sleepLeft, resp, outcome, sends, waited, sleepMs, checked, waitRefillIn>>

\* Line 106.
needsWait(tokens, required) == required + SafetyThreshold > tokens

\* Lines 103-106: the recomputation and the check before the first attempt.
DoRequestBegin(c) ==
  /\ pc[c] = "begin"
  /\ updateTokens(sinceLast)
  /\ checked' = [checked EXCEPT ![c] = TokensLeft']
  /\ pc' = [pc EXCEPT ![c] = IF needsWait(TokensLeft', requiredTokens[c]) THEN "wait" ELSE "send"]
  /\ UNCHANGED <<callers, method, requiredTokens, retry, sleepLeft, resp, outcome, sends,
                 waited, sleepMs, waitRefillIn, batchSize, requestedMax, asinCount>>

\* Lines 107 and 52-68: waitForTokens(requiredTokens+SafetyThreshold, 0) up to its sleep.
WaitForTokensSleep(c) ==
  /\ pc[c] = "wait"
  /\ waitRefillIn' = [waitRefillIn EXCEPT ![c] = 0]
  /\ LET ms == waitForTokensMs(TokensLeft, requiredTokens[c] + SafetyThreshold, waitRefillIn'[c])
     IN  IF ms < 0
         THEN /\ pc' = [pc EXCEPT ![c] = "send"]
              /\ UNCHANGED <<sleepLeft, waited>>
         ELSE /\ pc' = [pc EXCEPT ![c] = "waitsleep"]
              /\ sleepLeft' = [sleepLeft EXCEPT ![c] = ms]
              /\ waited' = [waited EXCEPT ![c] = TRUE]
  /\ UNCHANGED <<budgetVars, callers, method, requiredTokens, retry, resp, outcome,
                 sends, sleepMs, checked, batchSize, requestedMax, asinCount>>

\* Lines 68-72: the sleep ends, then the recomputation.
WaitForTokensWake(c) ==
  /\ pc[c] = "waitsleep"
  /\ wakeAndUpdate(c)
  /\ pc' = [pc EXCEPT ![c] = "send"]
  /\ UNCHANGED <<callers, method, requiredTokens, retry, resp, outcome, sends,
                 waited, sleepMs, checked, waitRefillIn, batchSize, requestedMax, asinCount>>

\* The arguments waitForTokens is called with: requiredTokens + SafetyThreshold
\* of a ProductRequest and of a ProductFinder, and an amount between them.
WaitRequired == {12, 18, 21}

\* Lines 52-69: a call of waitForTokens(requiredTokens, refillIn) by itself,
\* up to the early return or the sleep.
waitForTokens(c) ==
  /\ pc[c] = "idle"
  /\ \E required \in WaitRequired, hint \in RefillIns :
       /\ requiredTokens' = [requiredTokens EXCEPT ![c] = required]
       /\ waitRefillIn' = [waitRefillIn EXCEPT ![c] = hint]
       /\ LET ms == waitForTokensMs(TokensLeft, required, hint)
          IN  IF ms < 0
              THEN /\ pc' = [pc EXCEPT ![c] = "awaited"]
                   /\ UNCHANGED sleepLeft
              ELSE /\ pc' = [pc EXCEPT ![c] = "awaiting"]
                   /\ sleepLeft' = [sleepLeft EXCEPT ![c] = ms]
  /\ UNCHANGED <<budgetVars, callers, method, retry, resp, outcome, sends, waited,
                 sleepMs, checked, batchSize, requestedMax, asinCount>>

\* Lines 69-73: the sleep of that call ends, the recomputation, the return.
WaitForTokensReturn(c) ==
  /\ pc[c] = "awaiting"
  /\ wakeAndUpdate(c)
  /\ pc' = [pc EXCEPT ![c] = "awaited"]
  /\ UNCHANGED <<callers, method, requiredTokens, retry, resp, outcome, sends,
                 waited, sleepMs, checked, waitRefillIn, batchSize, requestedMax, asinCount>>

\* A loop that makes the first attempt only.
loopContinuesOnce(k) == k = 0

\* Line 111: the loop condition.
loopContinues(k) == k <= MaxRetries

\* Lines 111-126: one pass of the loop sends the request.
Send(c) ==
  /\ pc[c] = "send"
  /\ IF loopContinues(retry[c])
     THEN /\ pc' = [pc EXCEPT ![c] = "inflight"]
          /\ sends' = [sends EXCEPT ![c] = @ + 1]
          /\ UNCHANGED outcome
     ELSE /\ pc' = [pc EXCEPT ![c] = "done"]
          /\ outcome' = [outcome EXCEPT ![c] = "err_unexpected"]
          /\ UNCHANGED sends
  /\ UNCHANGED <<budgetVars, callers, method, requiredTokens, retry, sleepLeft, resp,
                 waited, sleepMs, checked, waitRefillIn, batchSize, requestedMax, asinCount>>

\* What the upstream may answer.
Answers ==
  {[kind |-> "transport", status |-> 0, tokensLeft |-> 0, ahead |-> 0, refillIn |-> 0]}
  \cup {[kind |-> "badbody", status |-> s, tokensLeft |-> 0, ahead |-> 0, refillIn |-> 0] :
          s \in {200, 429}}
  \cup {[kind |-> "body", status |-> s, tokensLeft |-> t, ahead |-> k, refillIn |-> 0] :
          s \in Statuses \ {429}, t \in ServerTokens, k \in ServerAhead}
  \cup {[kind |-> "body", status |-> 429, tokensLeft |-> t, ahead |-> k, refillIn |-> f] :
          t \in ServerTokens, k \in ServerAhead, f \in RefillIns}

Finish(c, o) ==
  /\ pc' = [pc EXCEPT ![c] = "done"]
  /\ outcome' = [outcome EXCEPT ![c] = o]

\* Lines 117-132: the error check after the send.  In the POST branch err is
\* redeclared by := at line 121, so line 125 assigns the inner err and the
\* outer one stays nil: resp is nil at line 132 and resp.Body panics.
transportOutcome(m) == IF m = "GET" THEN "err_transport" ELSE "panic"

\* A loop that gives up one pass early.
lastAttemptOneEarly(k) == k = MaxRetries - 1

\* Line 157.
lastAttempt(k) == k = MaxRetries

\* Lines 135-172: a 429, up to the return or the sleep.
Handle429(c, r) ==
  IF r.kind = "badbody"
  THEN /\ Finish(c, "err_parse")
       /\ UNCHANGED <<budgetVars, sleepLeft, sleepMs>>
  ELSE /\ reconcile(r)
       /\ IF lastAttempt(retry[c])
          THEN /\ Finish(c, "err_quota")
               /\ UNCHANGED <<sleepLeft, sleepMs>>
          ELSE LET ms == retryWaitMs(r, TokensLeft', requiredTokens[c], retry[c])
               IN  /\ pc' = [pc EXCEPT ![c] = "backoff"]
                   /\ sleepLeft' = [sleepLeft EXCEPT ![c] = Max(0, ms)]
                   /\ sleepMs' = [sleepMs EXCEPT ![c] = ms]
                   /\ UNCHANGED outcome

\* A check that lets every status through to the parsing of the body.
isOKAlways(status) == TRUE

\* A check that takes 200 for a failure too.
isOKNever(status) == FALSE

\* A check that takes every 2xx status for a success.
isOK2xx(status) == 200 <= status /\ status <= 299

\* Line 180.
isOK(status) == status = 200

\* Lines 179-201: every other status.
HandleOther(c, r) ==
  /\ UNCHANGED <<sleepLeft, sleepMs>>
  /\ IF ~isOK(r.status)
     THEN Finish(c, "err_status") /\ UNCHANGED budgetVars
     ELSE IF r.kind = "badbody"
     THEN Finish(c, "err_parse") /\ UNCHANGED budgetVars
     ELSE reconcile(r) /\ Finish(c, "ok")

\* Lines 128-201: an answer out of `answers` arrives and is handled up to the
\* return or the sleep.
ReceiveFrom(c, answers) ==
  /\ pc[c] = "inflight"
  /\ \E r \in answers :
       /\ resp' = [resp EXCEPT ![c] = r]
       /\ IF r.kind = "transport"
          THEN /\ Finish(c, transportOutcome(method[c]))
               /\ UNCHANGED <<budgetVars, sleepLeft, sleepMs>>
          ELSE IF r.status = 429
          THEN Handle429(c, r)
          ELSE HandleOther(c, r)
  /\ waited' = [waited EXCEPT ![c] = FALSE]
  /\ checked' = [checked EXCEPT ![c] = 0]
  /\ UNCHANGED <<callers, method, requiredTokens, retry, sends, waitRefillIn, batchSize, requestedMax, asinCount>>

Receive(c) == ReceiveFrom(c, Answers)

\* Lines 172-176: the backoff sleep ends, the recomputation, the next pass.
BackoffWake(c) ==
  /\ pc[c] = "backoff"
  /\ wakeAndUpdate(c)
  /\ retry' = [retry EXCEPT ![c] = @ + 1]
  /\ pc' = [pc EXCEPT ![c] = "send"]
  /\ UNCHANGED <<callers, method, requiredTokens, resp, outcome, sends, waited,
                 sleepMs, checked, waitRefillIn, batchSize, requestedMax, asinCount>>

\* ------------------------------------------- ProductFinder, ProductRequest
\* Lines 208-217 and 227-254: the two callers of doRequest.
ProductFinder(c) ==
  /\ Invoke(c, "POST", calculateProductFinderTokens(pageSize))
  /\ UNCHANGED <<budgetVars, callers, batchSize, requestedMax, asinCount>>

ProductRequest(c) ==
  /\ Invoke(c, "GET", calculateProductRequestTokens(1))
  /\ UNCHANGED <<budgetVars, callers, batchSize, requestedMax, asinCount>>

\* redis.go lines 46-55: the cost functions evaluated by themselves on a
\* number of ASINs; the result is kept where doRequest would get it.
Sizes == 0..MaxSize

FinderCost(c) ==
  /\ pc[c] = "idle"
  /\ pc' = [pc EXCEPT ![c] = "costed"]
  /\ method' = [method EXCEPT ![c] = "POST"]
  /\ \E n \in Sizes :
       /\ asinCount' = n
       /\ requiredTokens' = [requiredTokens EXCEPT ![c] = calculateProductFinderTokens(n)]
  /\ UNCHANGED <<budgetVars, callers, retry, sleepLeft, resp, outcome, sends, waited,
                 sleepMs, checked, waitRefillIn, batchSize, requestedMax>>

RequestCost(c) ==
  /\ pc[c] = "idle"
  /\ pc' = [pc EXCEPT ![c] = "costed"]
  /\ method' = [method EXCEPT ![c] = "GET"]
  /\ \E n \in Sizes :
       /\ asinCount' = n
       /\ requiredTokens' = [requiredTokens EXCEPT ![c] = calculateProductRequestTokens(n)]
  /\ UNCHANGED <<budgetVars, callers, retry, sleepLeft, resp, outcome, sends, waited,
                 sleepMs, checked, waitRefillIn, batchSize, requestedMax>>

\* The locals of a finished call are gone.
dropLocals(c) ==
  /\ method' = [method EXCEPT ![c] = "GET"]
  /\ requiredTokens' = [requiredTokens EXCEPT ![c] = 0]
  /\ retry' = [retry EXCEPT ![c] = 0]
  /\ resp' = [resp EXCEPT ![c] = NoResp]
  /\ outcome' = [outcome EXCEPT ![c] = "none"]
  /\ sends' = [sends EXCEPT ![c] = 0]
  /\ waited' = [waited EXCEPT ![c] = FALSE]
  /\ sleepMs' = [sleepMs EXCEPT ![c] = 0]
  /\ checked' = [checked EXCEPT ![c] = 0]
  /\ waitRefillIn' = [waitRefillIn EXCEPT ![c] = 0]
  /\ UNCHANGED sleepLeft

\* The caller has the result of doRequest, of calculateDynamicBatchSize or of
\* a cost function, or its call of waitForTokens is over, and it goes on.
Return(c) ==
  /\ pc[c] \in {"done", "planned", "awaited", "costed"}
  /\ pc' = [pc EXCEPT ![c] = "idle"]
  /\ dropLocals(c)
  /\ batchSize' = 0
  /\ requestedMax' = 0
  /\ asinCount' = 0
  /\ UNCHANGED <<budgetVars, callers>>

\* --------------------------------------------------- handleFetchProducts
\* The lists a discovery may return.
AsinLists == UNION {[1..n -> ASINs] : n \in 0..MaxAsins}

InitHandlerOff ==
  /\ hpc = "off"
  /\ cat = 0
  /\ asins = <<>>
  /\ idx = 0
  /\ lookup = "none"
  /\ cache = {}
  /\ saved = "none"
  /\ persisted = "none"
  /\ logged = "none"
  /\ fetchFailed = FALSE
  /\ reply = "none"

\* Lines 321-339: the request body is bound.
HandlerBind ==
  /\ hpc = "start"
  /\ \/ reply' = "400" /\ hpc' = "returned" /\ UNCHANGED cat
     \/ cat' = 1 /\ hpc' = "category" /\ UNCHANGED reply
  /\ UNCHANGED <<clientVars, asins, idx, lookup, cache, saved, persisted, logged, fetchFailed>>

\* Lines 341-348 and 396: the next category's discovery, or the reply.
HandlerCategory ==
  /\ hpc = "category"
  /\ IF cat > NumCategories
     THEN /\ reply' = "202"
          /\ hpc' = "returned"
          /\ UNCHANGED clientVars
     ELSE /\ ProductFinder(1)
          /\ hpc' = "finder"
          /\ UNCHANGED reply
  /\ UNCHANGED <<cat, asins, idx, lookup, cache, saved, persisted, logged, fetchFailed>>

\* A handler that goes on while its call is still asleep.
callReturnedOrAsleep(p) == p \in {"done", "waitsleep", "backoff"}

\* Lines 348 and 375: the calls are made in the handler's own goroutine, which
\* goes on when they have returned.
callReturned(p) == p = "done"

\* Lines 348-355: ProductFinder has returned.
HandlerFinderReturned ==
  /\ hpc = "finder"
  /\ callReturned(pc[1])
  /\ pc' = [pc EXCEPT ![1] = "idle"]
  /\ dropLocals(1)
  /\ IF outcome[1] = "panic"
     THEN hpc' = "panicked" /\ UNCHANGED <<asins, idx>>
     ELSE IF outcome[1] # "ok"
     THEN hpc' = "returned" /\ UNCHANGED <<asins, idx>>
     ELSE /\ hpc' = "item"
          /\ asins' \in AsinLists
          /\ idx' = 1
  /\ UNCHANGED <<budgetVars, callers, batchSize, requestedMax, asinCount, cat, lookup, cache,
                 saved, persisted, logged, fetchFailed, reply>>

\* redis.go lines 11-25: a hit needs the key; a failure of the store or of
\* the deserialization is an error like the miss.
lookupResults(asin) == IF asin \in cache THEN {"hit", "error"} ELSE {"miss", "error"}

\* A lookup whose result is ignored.
afterLookupAlwaysFetch(l) == "miss"

\* A lookup whose failure ends the run.
afterLookupErrorStops(l) == IF l = "hit" THEN "hit" ELSE IF l = "error" THEN "returned" ELSE "miss"

\* Line 366: err == nil takes the branch of the hit.
afterLookup(l) == IF l = "hit" THEN "hit" ELSE "miss"

\* Lines 358-366: the next item's lookup, or the end of the category.
HandlerItem ==
  /\ hpc = "item"
  /\ IF idx > Len(asins)
     THEN /\ cat' = cat + 1
          /\ hpc' = "category"
          /\ lookup' = "none"
     ELSE /\ lookup' \in lookupResults(asins[idx])
          /\ hpc' = afterLookup(lookup')
          /\ UNCHANGED cat
  /\ saved' = "none"
  /\ persisted' = "none"
  /\ logged' = "none"
  /\ UNCHANGED <<clientVars, asins, idx, cache, fetchFailed, reply>>

\* Lines 366-372: the cached product is persisted.
afterHit(firestore) == IF firestore = "ok" THEN "returned" ELSE "item"

\* Lines 367-368: the failure of firestoreFunction for a cached product is logged.
logOfHit(firestore) == IF firestore = "failed" THEN "firestore" ELSE "none"

HandlerHit ==
  /\ hpc = "hit"
  /\ \E firestore \in {"ok", "failed"} :
       /\ persisted' = firestore
       /\ hpc' = afterHit(firestore)
       /\ logged' = logOfHit(firestore)
       /\ idx' = IF hpc' = "item" THEN idx + 1 ELSE idx
  /\ UNCHANGED <<clientVars, cat, asins, lookup, cache, saved, fetchFailed, reply>>

\* Line 375: ProductRequest(asin).
HandlerFetch ==
  /\ hpc = "miss"
  /\ ProductRequest(1)
  /\ hpc' = "product"
  /\ UNCHANGED <<cat, asins, idx, lookup, cache, saved, persisted, logged, fetchFailed, reply>>

\* A handler that takes every result of ProductRequest for a product.
isFailureNever(o) == FALSE

\* Line 376: err != nil.
isFailure(o) == o # "ok"

\* A failure of saveProductToRedis that leaves no trace.
logOfSaveSilent(redis) == "none"

\* Lines 382-385: the failure of saveProductToRedis is logged.
logOfSave(redis) == IF redis = "failed" THEN "redis" ELSE "none"

\* Lines 375-390: ProductRequest has returned.  The result of the
\* firestoreFunction of line 387 is dropped.
HandlerProductReturned ==
  /\ hpc = "product"
  /\ callReturned(pc[1])
  /\ pc' = [pc EXCEPT ![1] = "idle"]
  /\ dropLocals(1)
  /\ IF outcome[1] = "panic"
     THEN hpc' = "panicked" /\ UNCHANGED <<idx, cache, saved, persisted, logged, fetchFailed>>
     ELSE IF isFailure(outcome[1])
     THEN /\ hpc' = "item"
          /\ idx' = idx + 1
          /\ logged' = "fetch"
          /\ fetchFailed' = TRUE
          /\ UNCHANGED <<cache, saved, persisted>>
     ELSE /\ \E redis \in {"ok", "failed"} :
               /\ saved' = redis
               /\ cache' = IF redis = "ok" THEN cache \cup {asins[idx]} ELSE cache
               /\ logged' = logOfSave(redis)
          /\ persisted' \in {"ok", "failed"}
          /\ UNCHANGED fetchFailed
          /\ hpc' = "item"
          /\ idx' = idx + 1
  /\ UNCHANGED <<budgetVars, callers, batchSize, requestedMax, asinCount, cat, asins, lookup, reply>>

\* ---------------------------------------------------- fetchProductDetails
ItemLists == UNION {[1..n -> ASINs] : n \in 0..MaxItems}
\* One item more than the channel of line 191 holds.
BurstItems == maxConcurrent + 1
Items == 1..(Max(MaxItems, BurstItems) + 1)
\* How the fetch of an item can end: "ok" is an answer with status 200 and a
\* JSON body, "non2xx" an answer with another status and a JSON body; the
\* other four are the failures of lines 208, 222, 237 and 251.
Fates == {"ok", "non2xx", "create", "transport", "read", "parse"}

InitPipeOff ==
  /\ asinList = <<>>
  /\ dpc = "off"
  /\ di = 0
  /\ wg = 0
  /\ semaphore = 0
  /\ mutex = 0
  /\ wpc = [i \in Items |-> "none"]
  /\ fate = [i \in Items |-> "none"]
  /\ results = <<>>
  /\ returned = <<>>

\* Lines 194-195: the loop goes to the next item, or ends.
Dispatch ==
  /\ dpc = "loop"
  /\ IF di <= Len(asinList)
     THEN wg' = wg + 1 /\ dpc' = "acquire"
     ELSE dpc' = "wait" /\ UNCHANGED wg
  /\ UNCHANGED <<asinList, di, semaphore, mutex, wpc, fate, results, returned>>

\* A channel that takes one element more than its capacity.
hasRoomForOneMore(n) == n <= maxConcurrent

\* Lines 191 and 196: the send on the channel goes through when it is not full.
hasRoom(n) == n < maxConcurrent

\* Lines 196-198: the send on the channel blocks while it is full; then the
\* goroutine of the item starts.
Acquire ==
  /\ dpc = "acquire"
  /\ hasRoom(semaphore)
  /\ semaphore' = semaphore + 1
  /\ wpc' = [wpc EXCEPT ![di] = "fetch"]
  /\ di' = di + 1
  /\ dpc' = "loop"
  /\ UNCHANGED <<asinList, wg, mutex, fate, results, returned>>

\* Lines 202-261: the request is made, sent, read and parsed; each of the
\* four can fail.
FetchWith(i, fates) ==
  /\ wpc[i] = "fetch"
  /\ \E f \in fates : fate' = [fate EXCEPT ![i] = f]
  /\ wpc' = [wpc EXCEPT ![i] = "lock"]
  /\ UNCHANGED <<asinList, dpc, di, wg, semaphore, mutex, results, returned>>

Fetch(i) == FetchWith(i, Fates)

\* A Lock that never blocks.
unlockedAlways(m) == TRUE

\* mutex.Lock() goes through when no goroutine holds the mutex.
unlocked(m) == m = 0

\* mutex.Lock() on each of the five paths.
Lock(i) ==
  /\ wpc[i] = "lock"
  /\ unlocked(mutex)
  /\ mutex' = i
  /\ wpc' = [wpc EXCEPT ![i] = "append"]
  /\ UNCHANGED <<asinList, dpc, di, wg, semaphore, fate, results, returned>>

\* A body that parses counts as a success.
parsed(f) == f \in {"ok", "non2xx"}

\* The ProductDetailResponse of lines 211-215, 225-229, 240-244, 254-258, 265-269.
\* resp.StatusCode is never read: Data is the parsed body of the answer to the
\* request for asin, whatever its status.
resultOf(asin, f) ==
  IF parsed(f)
  THEN [ASIN |-> asin, Success |-> TRUE, Data |-> asin, Error |-> ""]
  ELSE [ASIN |-> asin, Success |-> FALSE, Data |-> "",
        Error |-> IF f = "create" THEN "Failed to create request"
                  ELSE IF f = "transport" THEN "Request failed"
                  ELSE IF f = "read" THEN "Failed to read response"
                  ELSE "Failed to parse response"]

\* The append and mutex.Unlock().
AppendResult(i) ==
  /\ wpc[i] = "append"
  /\ results' = Append(results, resultOf(asinList[i], fate[i]))
  /\ mutex' = 0
  /\ wpc' = [wpc EXCEPT ![i] = "release"]
  /\ UNCHANGED <<asinList, dpc, di, wg, semaphore, fate, returned>>

\* A goroutine that ends without taking its element out of the channel.
releasedNever(n) == n

\* Line 200: the deferred receive takes one element out of the channel.
released(n) == n - 1

\* Line 200: the deferred receive from the channel.
Release(i) ==
  /\ wpc[i] = "release"
  /\ semaphore' = released(semaphore)
  /\ wpc' = [wpc EXCEPT ![i] = "exit"]
  /\ UNCHANGED <<asinList, dpc, di, wg, mutex, fate, results, returned>>

\* Line 199: the deferred wg.Done().
Done(i) ==
  /\ wpc[i] = "exit"
  /\ wg' = wg - 1
  /\ wpc' = [wpc EXCEPT ![i] = "done"]
  /\ UNCHANGED <<asinList, dpc, di, semaphore, mutex, fate, results, returned>>

\* A wait that ends while one goroutine is still running.
waitOverWithOneLeft(n) == n <= 1

\* Lines 278-281: wg.Wait() and the return.
waitOver(n) == n = 0

WaitAndReturn ==
  /\ dpc = "wait"
  /\ waitOver(wg)
  /\ returned' = results
  /\ dpc' = "returned"
  /\ UNCHANGED <<asinList, di, wg, semaphore, mutex, wpc, fate, results>>

\* ------------------------------------------------------- specifications
\* The client alone: its methods are called one after the other.
Next ==
  \/ Tick /\ UNCHANGED <<handlerVars, pipeVars>>
  \/ \E c \in callers : calculateDynamicBatchSize(c) /\ UNCHANGED <<handlerVars, pipeVars>>
  \/ \E c \in callers : ProductFinder(c) /\ UNCHANGED <<handlerVars, pipeVars>>
  \/ \E c \in callers : ProductRequest(c) /\ UNCHANGED <<handlerVars, pipeVars>>
  \/ \E c \in callers : DoRequestBegin(c) /\ UNCHANGED <<handlerVars, pipeVars>>
  \/ \E c \in callers : WaitForTokensSleep(c) /\ UNCHANGED <<handlerVars, pipeVars>>
  \/ \E c \in callers : WaitForTokensWake(c) /\ UNCHANGED <<handlerVars, pipeVars>>
  \/ \E c \in callers : Send(c) /\ UNCHANGED <<handlerVars, pipeVars>>
  \/ \E c \in callers : Receive(c) /\ UNCHANGED <<handlerVars, pipeVars>>
  \/ \E c \in callers : BackoffWake(c) /\ UNCHANGED <<handlerVars, pipeVars>>
  \/ \E c \in callers : Return(c) /\ UNCHANGED <<handlerVars, pipeVars>>

Init ==
  /\ InitClient
  /\ InitReq
  /\ callers = {1}
  /\ InitHandlerOff
  /\ InitPipeOff

Spec == Init /\ [][Next]_vars

\* Two requests of the web server run on the one client at once, and the
\* upstream answers 200.
OKAnswers == {r \in Answers : r.kind = "body" /\ r.status = 200}

ReceiveOK(c) == ReceiveFrom(c, OKAnswers)

InitRace ==
  /\ InitClient
  /\ InitReq
  /\ callers = {1, 2}
  /\ InitHandlerOff
  /\ InitPipeOff

NextRace ==
  \/ \E c \in callers : ProductFinder(c) /\ UNCHANGED <<handlerVars, pipeVars>>
  \/ \E c \in callers : ProductRequest(c) /\ UNCHANGED <<handlerVars, pipeVars>>
  \/ \E c \in callers : DoRequestBegin(c) /\ UNCHANGED <<handlerVars, pipeVars>>
  \/ \E c \in callers : WaitForTokensSleep(c) /\ UNCHANGED <<handlerVars, pipeVars>>
  \/ \E c \in callers : WaitForTokensWake(c) /\ UNCHANGED <<handlerVars, pipeVars>>
  \/ \E c \in callers : Send(c) /\ UNCHANGED <<handlerVars, pipeVars>>
  \/ \E c \in callers : ReceiveOK(c) /\ UNCHANGED <<handlerVars, pipeVars>>
  \/ \E c \in callers : Return(c) /\ UNCHANGED <<handlerVars, pipeVars>>

SpecRace == InitRace /\ [][NextRace]_vars

\* One run of handleFetchProducts.
InitHandler ==
  /\ InitClient
  /\ InitReq
  /\ callers = {1}
  /\ hpc = "start"
  /\ cat = 0
  /\ asins = <<>>
  /\ idx = 0
  /\ lookup = "none"
  /\ cache \in SUBSET ASINs
  /\ saved = "none"
  /\ persisted = "none"
  /\ logged = "none"
  /\ fetchFailed = FALSE
  /\ reply = "none"
  /\ InitPipeOff

NextHandler ==
  \/ HandlerBind /\ UNCHANGED pipeVars
  \/ HandlerCategory /\ UNCHANGED pipeVars
  \/ HandlerFinderReturned /\ UNCHANGED pipeVars
  \/ HandlerItem /\ UNCHANGED pipeVars
  \/ HandlerHit /\ UNCHANGED pipeVars
  \/ HandlerFetch /\ UNCHANGED pipeVars
  \/ HandlerProductReturned /\ UNCHANGED pipeVars
  \/ DoRequestBegin(1) /\ UNCHANGED <<handlerVars, pipeVars>>
  \/ WaitForTokensSleep(1) /\ UNCHANGED <<handlerVars, pipeVars>>
  \/ WaitForTokensWake(1) /\ UNCHANGED <<handlerVars, pipeVars>>
  \/ Send(1) /\ UNCHANGED <<handlerVars, pipeVars>>
  \/ Receive(1) /\ UNCHANGED <<handlerVars, pipeVars>>
  \/ BackoffWake(1) /\ UNCHANGED <<handlerVars, pipeVars>>

SpecHandler == InitHandler /\ [][NextHandler]_vars

\* One run of fetchProductDetails.
InitPipeline ==
  /\ InitClient
  /\ InitReq
  /\ callers = {}
  /\ InitHandlerOff
  /\ asinList \in ItemLists
  /\ dpc = "loop"
  /\ di = 1
  /\ wg = 0
  /\ semaphore = 0
  /\ mutex = 0
  /\ wpc = [i \in Items |-> "none"]
  /\ fate = [i \in Items |-> "none"]
  /\ results = <<>>
  /\ returned = <<>>

NextPipeline ==
  \/ Dispatch /\ UNCHANGED <<clientVars, handlerVars>>
  \/ Acquire /\ UNCHANGED <<clientVars, handlerVars>>
  \/ \E i \in Items : Fetch(i) /\ UNCHANGED <<clientVars, handlerVars>>
  \/ \E i \in Items : Lock(i) /\ UNCHANGED <<clientVars, handlerVars>>
  \/ \E i \in Items : AppendResult(i) /\ UNCHANGED <<clientVars, handlerVars>>
  \/ \E i \in Items : Release(i) /\ UNCHANGED <<clientVars, handlerVars>>
  \/ \E i \in Items : Done(i) /\ UNCHANGED <<clientVars, handlerVars>>
  \/ WaitAndReturn /\ UNCHANGED <<clientVars, handlerVars>>

SpecPipeline == InitPipeline /\ [][NextPipeline]_vars

\* One run of fetchProductDetails on more items than the channel holds, every
\* fetch succeeding.
FetchOK(i) == FetchWith(i, {"ok"})

InitCeiling ==
  /\ InitClient
  /\ InitReq
  /\ callers = {}
  /\ InitHandlerOff
  /\ asinList \in {[i \in 1..n |-> "B01"] : n \in {maxConcurrent, BurstItems}}
  /\ dpc = "loop"
  /\ di = 1
  /\ wg = 0
  /\ semaphore = 0
  /\ mutex = 0
  /\ wpc = [i \in Items |-> "none"]
  /\ fate = [i \in Items |-> "none"]
  /\ results = <<>>
  /\ returned = <<>>

NextCeiling ==
  \/ Dispatch /\ UNCHANGED <<clientVars, handlerVars>>
  \/ Acquire /\ UNCHANGED <<clientVars, handlerVars>>
  \/ \E i \in Items : FetchOK(i) /\ UNCHANGED <<clientVars, handlerVars>>
  \/ \E i \in Items : Lock(i) /\ UNCHANGED <<clientVars, handlerVars>>
  \/ \E i \in Items : AppendResult(i) /\ UNCHANGED <<clientVars, handlerVars>>
  \/ \E i \in Items : Release(i) /\ UNCHANGED <<clientVars, handlerVars>>
  \/ \E i \in Items : Done(i) /\ UNCHANGED <<clientVars, handlerVars>>
  \/ WaitAndReturn /\ UNCHANGED <<clientVars, handlerVars>>

SpecCeiling == InitCeiling /\ [][NextCeiling]_vars

\* One run of fetchProductDetails on any list: the short lists with every
\* way a fetch can end, the lists that fill the channel with fetches that
\* succeed.  The Go scheduler runs a goroutine that can take a step, and
\* the http.Client of line 178 ends every request after 60 s at the latest.
FetchSome(i) == FetchWith(i, IF Len(asinList) <= MaxItems THEN Fates ELSE {"ok"})

InitReturns ==
  /\ InitClient
  /\ InitReq
  /\ callers = {}
  /\ InitHandlerOff
  /\ asinList \in ItemLists \cup {[i \in 1..n |-> "B01"] : n \in {maxConcurrent, BurstItems}}
  /\ dpc = "loop"
  /\ di = 1
  /\ wg = 0
  /\ semaphore = 0
  /\ mutex = 0
  /\ wpc = [i \in Items |-> "none"]
  /\ fate = [i \in Items |-> "none"]
  /\ results = <<>>
  /\ returned = <<>>

NextReturns ==
  \/ Dispatch /\ UNCHANGED <<clientVars, handlerVars>>
  \/ Acquire /\ UNCHANGED <<clientVars, handlerVars>>
  \/ \E i \in Items : FetchSome(i) /\ UNCHANGED <<clientVars, handlerVars>>
  \/ \E i \in Items : Lock(i) /\ UNCHANGED <<clientVars, handlerVars>>
  \/ \E i \in Items : AppendResult(i) /\ UNCHANGED <<clientVars, handlerVars>>
  \/ \E i \in Items : Release(i) /\ UNCHANGED <<clientVars, handlerVars>>
  \/ \E i \in Items : Done(i) /\ UNCHANGED <<clientVars, handlerVars>>
  \/ WaitAndReturn /\ UNCHANGED <<clientVars, handlerVars>>

SpecReturns == InitReturns /\ [][NextReturns]_vars /\ WF_vars(NextReturns)

\* Calls of waitForTokens by themselves, on a budget the server's values
\* have set.
InitWait ==
  /\ TokensLeft \in ServerTokens \cup {InitialTokens}
  /\ sinceLast \in {0 - a : a \in ServerAhead}
  /\ batchSize = 0
  /\ requestedMax = 0
  /\ asinCount = 0
  /\ InitReq
  /\ callers = {1}
  /\ InitHandlerOff
  /\ InitPipeOff

NextWait ==
  \/ Tick /\ UNCHANGED <<handlerVars, pipeVars>>
  \/ \E c \in callers : waitForTokens(c) /\ UNCHANGED <<handlerVars, pipeVars>>
  \/ \E c \in callers : WaitForTokensReturn(c) /\ UNCHANGED <<handlerVars, pipeVars>>
  \/ \E c \in callers : Return(c) /\ UNCHANGED <<handlerVars, pipeVars>>

SpecWait == InitWait /\ [][NextWait]_vars

\* Calls of calculateDynamicBatchSize by themselves, on a budget the server's
\* values or earlier requests have left.
PlannerTokens == ServerTokens \cup {InitialTokens, 10, 11, 13, 50, 209, 211}

InitPlanner ==
  /\ TokensLeft \in PlannerTokens
  /\ sinceLast \in {0 - a : a \in ServerAhead}
  /\ batchSize = 0
  /\ requestedMax = 0
  /\ asinCount = 0
  /\ InitReq
  /\ callers = {1}
  /\ InitHandlerOff
  /\ InitPipeOff

NextPlanner ==
  \/ Tick /\ UNCHANGED <<handlerVars, pipeVars>>
  \/ \E c \in callers : calculateDynamicBatchSize(c) /\ UNCHANGED <<handlerVars, pipeVars>>
  \/ \E c \in callers : Return(c) /\ UNCHANGED <<handlerVars, pipeVars>>

SpecPlanner == InitPlanner /\ [][NextPlanner]_vars

\* The cost functions by themselves.
NextCost ==
  \/ \E c \in callers : FinderCost(c) /\ UNCHANGED <<handlerVars, pipeVars>>
  \/ \E c \in callers : RequestCost(c) /\ UNCHANGED <<handlerVars, pipeVars>>
  \/ \E c \in callers : Return(c) /\ UNCHANGED <<handlerVars, pipeVars>>

SpecCost == Init /\ [][NextCost]_vars

\* ------------------------------------------------------------------ claims
\* The steps that call updateTokens, and the timeDiffMs of the call: the
\* planner, the start of doRequest, and the two wake-ups.
UpdateStep(c) ==
  \/ pc[c] = "idle" /\ pc'[c] = "planned"
  \/ pc[c] = "begin" /\ pc'[c] # "begin"
  \/ pc[c] = "waitsleep" /\ pc'[c] # "waitsleep"
  \/ pc[c] = "backoff" /\ pc'[c] # "backoff"

updateDiff(c) == sinceLast + (IF pc[c] \in {"waitsleep", "backoff"} THEN sleepLeft[c] ELSE 0)

\* An answer has arrived for caller c in this step.
Received(c) == pc[c] = "inflight" /\ pc'[c] # "inflight"

\* C1: right after every recomputation (updateTokens), 0 <= TokensLeft <= 300.
C1_BudgetInRange ==
  [][\A c \in callers : UpdateStep(c) => 0 <= TokensLeft' /\ TokensLeft' <= TokenCap]_vars

\* C2 as stated: an invocation never sends more than MaxRetries requests, and
\* it fails with the quota error after exactly MaxRetries requests.
C2_AtMostMaxRetriesSends ==
  \A c \in callers :
    /\ sends[c] <= MaxRetries
    /\ outcome[c] = "err_quota" => sends[c] = MaxRetries

\* C2 as amended: an invocation never sends more than MaxRetries + 1 requests
\* (the first attempt and MaxRetries retries); one that ends on a 429 with a
\* parseable body has sent exactly MaxRetries + 1 and fails with the quota error.
C2_AtMostMaxRetriesPlusOneSends ==
  \A c \in callers :
    /\ sends[c] <= MaxRetries + 1
    /\ outcome[c] = "err_quota" => sends[c] = MaxRetries + 1
    /\ pc[c] = "done" /\ resp[c].kind = "body" /\ resp[c].status = 429
         => outcome[c] = "err_quota" /\ sends[c] = MaxRetries + 1

C2_Witness == pc[1] = "done" /\ outcome[1] = "err_quota" /\ sends[1] = 4

\* C3: every invocation of doRequest ends by returning one outcome to its
\* caller, success or an error value, and never by a crash.
Returned == {"ok", "err_transport", "err_status", "err_parse", "err_quota", "err_unexpected"}

C3_OneTerminalOutcome ==
  \A c \in callers :
    /\ pc[c] = "done" => outcome[c] \in Returned
    /\ pc[c] # "done" => outcome[c] = "none"

\* C4: two callers never both pass the check of line 106 and send without
\* waiting when the budget they saw covers the call of only one of them.
coversOnlyOne(tokens, c, d) ==
  /\ tokens >= requiredTokens[c] + SafetyThreshold
  /\ tokens >= requiredTokens[d] + SafetyThreshold
  /\ tokens < requiredTokens[c] + requiredTokens[d] + SafetyThreshold

C4_NoDoublePass ==
  \A c, d \in callers :
    c # d /\ pc[c] = "inflight" /\ pc[d] = "inflight" /\ sends[c] = 1 /\ sends[d] = 1
      /\ checked[c] = checked[d] /\ coversOnlyOne(checked[c], c, d)
    => waited[c] \/ waited[d]

\* C5: fetchProductDetails returns one result per input item: the keys of the
\* results are the keys of the input, each as often as in the input and in any
\* order, a failed item with its reason and a successful one with its payload.
expected(i) == resultOf(asinList[i], fate[i])

sameBag(xs, ys) ==
  /\ Len(xs) = Len(ys)
  /\ \A k \in 1..Len(xs) :
       Cardinality({j \in 1..Len(xs) : xs[j] = xs[k]})
         = Cardinality({j \in 1..Len(ys) : ys[j] = xs[k]})

C6_EndsAfterEveryItem ==
  hpc = "returned" => \A k \in 1..Len(asins) : k <= idx

\* C7: an item whose lookup is a hit is never requested from the upstream and
\* its processing leaves TokensLeft and LastTimestamp alone; a request for an
\* item is only made after its lookup, which was no hit.
C7_HitBypassesUpstream ==
  /\ [](lookup = "hit" => pc[1] = "idle" /\ sends[1] = 0)
  /\ [](hpc \in {"miss", "product"} => lookup \in {"miss", "error"})
  /\ [][hpc = "hit" => UNCHANGED <<TokensLeft, sinceLast>> /\ pc'[1] = "idle"]_vars

C7_Witness == lookup = "hit" /\ hpc = "item" /\ persisted = "failed" /\ idx = 2

\* C8 as stated: an answer with a 2xx status or a 429 and a parseable body
\* makes the budget adopt the server's tokensLeft and timestamp.
adopted(r) == TokensLeft' = r.tokensLeft /\ sinceLast' = 0 - r.ahead

C8_AdoptsOn2xxAnd429 ==
  [][\A c \in callers :
       Received(c) /\ resp'[c].kind = "body"
         /\ (resp'[c].status = 429 \/ (200 <= resp'[c].status /\ resp'[c].status <= 299))
       => adopted(resp'[c])]_vars

\* C8 as amended: an answer with status 200 or 429 and a parseable body makes
\* the budget adopt the server's tokensLeft and timestamp, on the last attempt too.
C8_AdoptsOn200And429 ==
  [][\A c \in callers :
       Received(c) /\ resp'[c].kind = "body" /\ resp'[c].status \in {200, 429}
       => adopted(resp'[c])]_vars

C8_Witness ==
  /\ pc[1] = "done" /\ outcome[1] = "err_quota"
  /\ resp[1].tokensLeft = 5 /\ TokensLeft = 5 /\ sinceLast = 0 - resp[1].ahead

\* C9: a recomputation at a timestamp not before LastTimestamp never lowers
\* TokensLeft and leaves it at most 300, from every reachable budget, those
\* set by the adoption of the server's values included.
C9_NeverDecreases ==
  [][\A c \in callers :
       UpdateStep(c) /\ updateDiff(c) >= 0
       => TokensLeft' >= TokensLeft /\ TokensLeft' <= TokenCap]_vars

\* C10: a recomputation after elapsedMs adds one token per full 12000 ms
\* (toward zero for a negative elapsedMs), stops at 300, and sets
\* LastTimestamp to now.
Periods == 0..40

fullPeriods(e) == CHOOSE k \in Periods : k * 12000 <= e /\ e < (k + 1) * 12000

wholeTokens(elapsedMs) ==
  IF elapsedMs >= 0 THEN fullPeriods(elapsedMs) ELSE 0 - fullPeriods(0 - elapsedMs)

C10_OneTokenPerTwelveSeconds ==
  [][\A c \in callers :
       UpdateStep(c)
       => /\ TokensLeft' = Min(TokenCap, TokensLeft + wholeTokens(updateDiff(c)))
          /\ sinceLast' = 0]_vars

C10_Witness ==
  /\ pc[1] = "send" /\ retry[1] = 0 /\ waited[1]
  /\ TokensLeft = requiredTokens[1] + SafetyThreshold

\* C11: the first attempt of an invocation is sent only when TokensLeft >=
\* requiredTokens + SafetyThreshold; when the check after the initial
\* recomputation fails, the caller sleeps in waitForTokens before it sends.
FirstSend(c) == pc[c] = "send" /\ pc'[c] = "inflight" /\ retry[c] = 0

covered(tokens, c) == tokens >= requiredTokens[c] + SafetyThreshold

C11_FirstSendCovered ==
  [][\A c \in callers :
       /\ FirstSend(c) => covered(TokensLeft, c)
       /\ pc[c] = "begin" /\ pc'[c] # "begin" /\ ~covered(TokensLeft', c) => pc'[c] = "wait"
       /\ pc[c] = "wait" /\ pc'[c] # "wait" /\ ~covered(TokensLeft, c)
            => pc'[c] = "waitsleep" /\ sleepLeft'[c] > 0]_vars

\* C12: waitForTokens(required, refillIn) returns at once, without a sleep
\* and with the budget as it was, when TokensLeft >= required; otherwise it
\* sleeps refillIn ms when refillIn > 0 and 12 s per missing token when not,
\* and then recomputes the budget once.
WaitCalled(c) == pc[c] = "idle" /\ pc'[c] \in {"awaiting", "awaited"}

WaitOver(c) == pc[c] = "awaiting" /\ pc'[c] = "awaited"

C12_WaitForTokens ==
  [][\A c \in callers :
       /\ WaitCalled(c) /\ TokensLeft >= requiredTokens'[c]
            => pc'[c] = "awaited" /\ UNCHANGED <<TokensLeft, sinceLast, sleepLeft>>
       /\ WaitCalled(c) /\ TokensLeft < requiredTokens'[c]
            => /\ pc'[c] = "awaiting"
               /\ UNCHANGED <<TokensLeft, sinceLast>>
               /\ sleepLeft'[c] = IF waitRefillIn'[c] > 0 THEN waitRefillIn'[c]
                                  ELSE (requiredTokens'[c] - TokensLeft) * 12000
       /\ pc[c] = "awaiting" /\ pc'[c] = "awaiting" => TokensLeft' = TokensLeft
       /\ WaitOver(c)
            => /\ TokensLeft' = Min(TokenCap, TokensLeft + wholeTokens(sinceLast + sleepLeft[c]))
               /\ sinceLast' = 0
               /\ sleepLeft'[c] = 0]_vars

C12_Witness ==
  /\ pc[1] = "awaited" /\ waitRefillIn[1] = 500 /\ requiredTokens[1] = 18
  /\ TokensLeft = 5 /\ sinceLast = 0

\* C13 as stated: after a 429 with attempts remaining the caller sleeps
\* max(refillIn, estimate) + 2^retry seconds, the estimate being
\* (requiredTokens + SafetyThreshold - TokensLeft) * 12 s on the budget just adopted.
Backoff(c) == Received(c) /\ pc'[c] = "backoff"

Retried429(c) ==
  /\ Received(c) /\ resp'[c].kind = "body" /\ resp'[c].status = 429
  /\ retry[c] < MaxRetries

estimateMs(c) == (requiredTokens[c] + SafetyThreshold - TokensLeft') * 12000

C13_SleepsMaxOfHintAndEstimate ==
  [][\A c \in callers :
       Retried429(c)
       => /\ Backoff(c)
          /\ sleepLeft'[c] = Max(resp'[c].refillIn, estimateMs(c)) + (2^retry[c]) * 1000]_vars

\* C13 as amended: the caller sleeps refillIn + 2^retry seconds when the 429
\* carries a refillIn > 0, and estimate + 2^retry seconds when it does not;
\* when that sum is not positive it does not sleep.
C13_SleepsHintElseEstimate ==
  [][\A c \in callers :
       Retried429(c)
       => /\ Backoff(c)
          /\ TokensLeft' = resp'[c].tokensLeft
          /\ LET base == IF resp'[c].refillIn > 0 THEN resp'[c].refillIn ELSE estimateMs(c)
                 ms == base + (2^retry[c]) * 1000
             IN  sleepLeft'[c] = IF ms > 0 THEN ms ELSE 0]_vars

C13_Witness ==
  /\ pc[1] = "backoff" /\ retry[1] = 1 /\ requiredTokens[1] = 11
  /\ resp[1].refillIn = 500 /\ resp[1].tokensLeft = 5 /\ sleepLeft[1] = 2500

\* C14 as stated: of two consecutive 429 answers that both carry refillIn = 0,
\* the second is followed by a strictly longer sleep than the first,
\* whatever tokensLeft they report.
slept(ms) == IF ms > 0 THEN ms ELSE 0

Consecutive429(c) ==
  /\ Retried429(c) /\ resp'[c].refillIn = 0
  /\ retry[c] >= 1 /\ resp[c].kind = "body" /\ resp[c].status = 429 /\ resp[c].refillIn = 0

C14_BackoffGrows ==
  [][\A c \in callers : Consecutive429(c) => sleepLeft'[c] > slept(sleepMs[c])]_vars

\* C14 as amended: the second sleep is strictly longer when the second 429
\* reports a tokensLeft that is not above the first one's and not above
\* requiredTokens + SafetyThreshold.
C14_BackoffGrowsWhileTokensFall ==
  [][\A c \in callers :
       /\ Consecutive429(c)
       /\ resp'[c].tokensLeft <= resp[c].tokensLeft
       /\ resp'[c].tokensLeft <= requiredTokens[c] + SafetyThreshold
       => sleepLeft'[c] > slept(sleepMs[c])]_vars

C14_Witness ==
  /\ pc[1] = "backoff" /\ retry[1] = 2 /\ requiredTokens[1] = 2
  /\ resp[1].refillIn = 0 /\ resp[1].tokensLeft = 12 /\ sleepLeft[1] = 4000

\* C15: an answer whose status is neither 429 nor 2xx ends the invocation at
\* once with an error: no sleep, no further attempt, whatever retry is.
OtherStatus(c) ==
  /\ Received(c) /\ resp'[c].kind # "transport"
  /\ resp'[c].status # 429 /\ ~(200 <= resp'[c].status /\ resp'[c].status <= 299)

C15_OtherStatusEndsAtOnce ==
  /\ [][\A c \in callers :
          OtherStatus(c)
          => /\ pc'[c] = "done" /\ outcome'[c] = "err_status"
             /\ UNCHANGED <<sleepLeft, sends, retry, TokensLeft, sinceLast>>]_vars
  /\ [][\A c \in callers : pc[c] = "done" => pc'[c] \in {"done", "idle"} /\ sends'[c] <= sends[c]]_vars

C15_Witness ==
  /\ pc[1] = "done" /\ outcome[1] = "err_status" /\ resp[1].status = 500
  /\ retry[1] = 1 /\ sends[1] = 2

\* C16: on a transport failure or a body that cannot be parsed, the caller
\* sleeps and sends again while retry < MaxRetries, and the invocation fails
\* only when retry = MaxRetries.
Failed(c) == Received(c) /\ resp'[c].kind \in {"transport", "badbody"}

C16_RetriesTransportAndParseFailures ==
  [][\A c \in callers :
       Failed(c) => IF retry[c] < MaxRetries THEN pc'[c] = "backoff" ELSE pc'[c] = "done"]_vars

\* C17 as stated: an answer with a 2xx status and a parseable body makes the
\* invocation return success with that body, the budget adopted from it, on
\* whichever attempt it arrives.
Succeeds(c) == pc'[c] = "done" /\ outcome'[c] = "ok" /\ adopted(resp'[c])

C17_SuccessOn2xx ==
  [][\A c \in callers :
       /\ Received(c) /\ resp'[c].kind = "body"
       /\ 200 <= resp'[c].status /\ resp'[c].status <= 299
       => Succeeds(c)]_vars

\* C17 as amended: an answer with status 200 and a parseable body does; every
\* other 2xx status is an error.
C17_SuccessOn200 ==
  [][\A c \in callers :
       /\ Received(c) /\ resp'[c].kind = "body" /\ resp'[c].status = 200 => Succeeds(c)
       /\ pc'[c] = "done" /\ outcome'[c] = "ok" /\ pc[c] # "done"
            => Received(c) /\ resp'[c].kind = "body" /\ resp'[c].status = 200]_vars

C17_Witness ==
  /\ pc[1] = "done" /\ outcome[1] = "ok" /\ retry[1] = MaxRetries
  /\ resp[1].status = 200 /\ TokensLeft = resp[1].tokensLeft /\ TokensLeft = 12

\* C18: at every moment of a run of fetchProductDetails at most 5 goroutines
\* are between the start of their fetch and the release of their slot.
inFlight == {i \in Items : wpc[i] \in {"fetch", "lock", "append", "release"}}

C18_AtMostFiveInFlight ==
  /\ Cardinality(inFlight) <= maxConcurrent
  /\ Cardinality(inFlight) = semaphore

C18_Witness ==
  /\ Len(asinList) = BurstItems /\ dpc = "acquire" /\ di = BurstItems
  /\ Cardinality(inFlight) = maxConcurrent

\* C19: no two goroutines of fetchProductDetails are appending to results at
\* the same time, on the success path or on a failure path.
appending == {i \in Items : wpc[i] = "append"}

C19_AppendsExcludeEachOther ==
  /\ Cardinality(appending) <= 1
  /\ \A i \in appending : mutex = i

C19_Witness ==
  /\ wpc[1] = "lock" /\ wpc[2] = "append" /\ mutex = 2
  /\ fate[1] = "ok" /\ fate[2] = "transport"

\* C20 as stated: while the request of one item is asleep in waitForTokens or
\* in a backoff, the handler can start on another item of the same run.
asleep(c) == pc[c] \in {"waitsleep", "backoff"} /\ sleepLeft[c] > 0

itemsLeft == idx < Len(asins)

startsItem == HandlerItem \/ HandlerHit \/ HandlerFetch \/ HandlerProductReturned

C20_OtherItemsGoOn ==
  hpc = "product" /\ asleep(1) /\ itemsLeft => ENABLED startsItem

\* C20 as amended: the sleep blocks the goroutine of the handler, which takes
\* the items one after the other: until the request of an item has returned,
\* no other item of the run is looked up or requested.
C20_ItemsOneAfterTheOther ==
  [][pc[1] # "done" /\ hpc \in {"finder", "product"}
       => UNCHANGED <<hpc, cat, asins, idx, lookup, reply>>]_vars

C20_Witness ==
  /\ hpc = "product" /\ pc[1] = "backoff" /\ sleepLeft[1] > 0
  /\ idx = 1 /\ Len(asins) = 2

\* C21: the planner returns 1 when TokensLeft - SafetyThreshold <= 0, and
\* otherwise max(1, min((TokensLeft - SafetyThreshold) / 2, requestedMax)) with
\* the integer division; 50 tokens and a requested maximum of 100 give 20.
plannedItems(tokens, requested) ==
  LET costPerItem == 2
      spare == tokens - SafetyThreshold
  IN  IF spare <= 0 THEN 1
      ELSE CHOOSE n \in 1..TokenCap :
             /\ n = 1 \/ (n * costPerItem <= spare /\ n <= requested)
             /\ \A m \in (n + 1)..TokenCap : ~(m * costPerItem <= spare /\ m <= requested)

C21_PlannerFormula ==
  \A c \in callers : pc[c] = "planned" =>
    /\ batchSize = plannedItems(TokensLeft, requestedMax)
    /\ TokensLeft = 50 /\ requestedMax = 100 => batchSize = 20

C21_Witness ==
  pc[1] = "planned" /\ TokensLeft = 50 /\ requestedMax = 100 /\ batchSize = 20

\* C22: the cost of a discovery of n items is 10 + ceil(n / 100) and the cost
\* of a detail fetch of n items is 2 * n, for every n >= 0; the cost depends
\* on the kind and on n alone.
ceilDiv(n, d) == CHOOSE k \in 0..(n + 1) : k * d >= n /\ (k - 1) * d < n

C22_CostFormulas ==
  \A c \in callers : pc[c] = "costed" =>
    /\ method[c] = "POST" => requiredTokens[c] = 10 + ceilDiv(asinCount, 100)
    /\ method[c] = "GET" => requiredTokens[c] = 2 * asinCount

C22_Witness ==
  pc[1] = "costed" /\ method[1] = "POST" /\ asinCount = 101 /\ requiredTokens[1] = 12

\* C23: when saveProductToRedis fails after a successful ProductRequest, the
\* item is not counted as failed, it is still handed to firestoreFunction, the
\* handler goes on to the next item, and the failure is written to the log.
saveFails == saved # "failed" /\ saved' = "failed"

C23_FailedSaveIsNotFatal ==
  [][saveFails =>
       /\ outcome[1] = "ok"
       /\ fetchFailed' = fetchFailed
       /\ persisted' \in {"ok", "failed"}
       /\ hpc' = "item" /\ idx' = idx + 1 /\ reply' = reply
       /\ logged' = "redis"]_vars

C23_Witness ==
  /\ saved = "failed" /\ logged = "redis" /\ persisted = "ok"
  /\ hpc = "item" /\ idx = 2 /\ Len(asins) = 2 /\ ~fetchFailed

\* C24: a lookup that fails is handled as a miss: the handler goes on to
\* ProductRequest for the item, through doRequest as after a plain miss, and
\* the lookup's failure does not end the item or the run.
looksUp == hpc = "item" /\ idx <= Len(asins) /\ hpc' # "item"

C24_LookupErrorIsAMiss ==
  [][/\ looksUp /\ lookup' \in {"miss", "error"} =>
          hpc' = "miss" /\ idx' = idx /\ reply' = reply /\ fetchFailed' = fetchFailed
     /\ hpc = "miss" /\ hpc' # "miss" =>
          /\ hpc' = "product" /\ pc'[1] = "begin" /\ method'[1] = "GET"
          /\ requiredTokens'[1] = calculateProductRequestTokens(1)
          /\ lookup' = lookup]_vars

C24_Witness ==
  /\ lookup = "error" /\ hpc = "product" /\ pc[1] = "inflight"
  /\ asins[idx] \in cache

\* C25: every run of handleFetchProducts ends with a reply to its caller,
\* also when the discovery of a category or the fetch of an item fails.
C25_AlwaysReplies ==
  hpc \in {"returned", "panicked"} => reply \in {"202", "400"}

\* C26: after the ProductRequest of an item has failed, every later item of
\* the run is still looked up: the run does not end while items of the list
\* in hand are left.
C26_LaterItemsLookedUp ==
  fetchFailed /\ hpc = "returned" => ~itemsLeft

\* C27: redis is written for an item only when the ProductRequest for this
\* item has just succeeded: not after a failed fetch and not after a hit.
writesCache == cache' # cache \/ (saved' # saved /\ saved' # "none")

C27_CacheWrittenAfterFetchOnly ==
  [][writesCache =>
       /\ hpc = "product" /\ outcome[1] = "ok" /\ method[1] = "GET"
       /\ lookup \in {"miss", "error"}
       /\ cache' \in {cache, cache \cup {asins[idx]}}
       /\ fetchFailed' = fetchFailed]_vars

C27_Witness ==
  /\ saved = "ok" /\ hpc = "item" /\ lookup = "miss"
  /\ idx = 2 /\ cache = {asins[1]}

\* C28 as stated: no attempt, the first or a retry, is sent while TokensLeft
\* is below requiredTokens + SafetyThreshold.
AnySend(c) == pc[c] = "send" /\ pc'[c] = "inflight"

C28_NoSendUncovered ==
  [][\A c \in callers : AnySend(c) => covered(TokensLeft, c)]_vars

\* C28 as amended: the budget is checked before the first attempt only; after
\* the backoff sleep and the recomputation the retry is sent without a
\* check, whatever TokensLeft is.
C28_RetrySentUnchecked ==
  [][\A c \in callers :
       /\ pc[c] = "backoff" /\ pc'[c] # "backoff"
            => pc'[c] = "send" /\ retry'[c] = retry[c] + 1 /\ retry'[c] <= MaxRetries
       /\ pc[c] = "send" /\ retry[c] >= 1 /\ pc'[c] # "send"
            => pc'[c] = "inflight" /\ sends'[c] = sends[c] + 1 /\ TokensLeft' = TokensLeft]_vars

C28_Witness ==
  /\ pc[1] = "inflight" /\ retry[1] = 1 /\ sends[1] = 2
  /\ resp[1].status = 429 /\ resp[1].refillIn = 500
  /\ ~covered(TokensLeft, 1)

\* C29: the sleep after a 429 on attempt retry is at least 2^retry seconds,
\* whatever refillIn and tokensLeft the 429 reports.
C29_BackoffAtLeastPow2 ==
  [][\A c \in callers :
       Retried429(c) => Backoff(c) /\ sleepLeft'[c] >= (2^retry[c]) * 1000]_vars

\* C30: no refill is lost to the truncation: below the capacity, the time
\* since the last recomputation is either turned into tokens, 12 s each, or
\* left on the clock for the next recomputation, so that the tokens gained
\* over an interval do not depend on the calls it is split into.
C30_NoRefillLost ==
  [][\A c \in callers :
       UpdateStep(c) /\ updateDiff(c) >= 0 /\ TokensLeft' < TokenCap
       => (TokensLeft' - TokensLeft) * 12000 + sinceLast' = updateDiff(c)]_vars

\* C31: fetchProductDetails returns in the end for every list, the empty
\* one and those longer than the channel included; the slots taken and the
\* slots released match at every moment, on every path of a goroutine, and
\* when it returns no fetch is in flight and every slot is free.
started == {i \in Items : wpc[i] # "none"}

C31_ReturnsWithNothingInFlight ==
  /\ <>(dpc = "returned")
  /\ [](semaphore = Cardinality(inFlight))
  /\ [](dpc = "returned" =>
          /\ inFlight = {} /\ semaphore = 0 /\ wg = 0 /\ mutex = 0
          /\ started = 1..Len(asinList)
          /\ \A i \in started : wpc[i] = "done")

C31_Witness ==
  /\ dpc = "returned" /\ Len(asinList) = BurstItems /\ Len(returned) = BurstItems
  /\ semaphore = 0

\* C32: an item is recorded with Success = true only when the answer to its
\* request had a 2xx status; after an answer with another status it is
\* recorded with Success = false and a reason.
Appended(i) == wpc[i] = "append" /\ wpc'[i] = "release"

C32_SuccessOnlyOn2xx ==
  [][\A i \in Items :
       Appended(i) =>
         LET r == results'[Len(results')]
         IN  /\ r.Success => fate[i] = "ok"
             /\ fate[i] = "non2xx" => ~r.Success /\ r.Error # ""]_vars

\* C33: an attempt that ends in a transport failure or in a status that is
\* neither 429 nor 200 leaves the budget as it was when the attempt was sent:
\* while the request is in flight only the clock moves, and the answer
\* changes neither TokensLeft nor LastTimestamp.
EndsWithoutBody(c) ==
  /\ Received(c)
  /\ resp'[c].kind = "transport" \/ resp'[c].status \notin {429, 200}

C33_FailedAttemptKeepsBudget ==
  [][\A c \in callers :
       /\ pc[c] = "inflight" /\ pc'[c] = "inflight"
            => TokensLeft' = TokensLeft /\ sinceLast' - sinceLast \in Ticks \cup {0}
       /\ EndsWithoutBody(c)
            => /\ UNCHANGED <<TokensLeft, sinceLast>>
               /\ pc'[c] = "done" /\ outcome'[c] # "ok"]_vars

C33_Witness ==
  /\ pc[1] = "done" /\ outcome[1] = "err_status"
  /\ resp[1].status = 201 /\ resp[1].tokensLeft = 5 /\ resp[1].ahead = 24000
  /\ TokensLeft = InitialTokens /\ sinceLast = 6000

\* C34: the planned batch size lies in 1..max(1, requestedMax); when
\* TokensLeft - SafetyThreshold >= 2 the cost of the planned batch, 2 tokens
\* per item, is within TokensLeft - SafetyThreshold, and a plan whose cost
\* is above it is the plan of one item.
planCost == calculateProductRequestTokens(batchSize)

C34_PlanWithinBudget ==
  \A c \in callers : pc[c] = "planned" =>
    LET spare == TokensLeft - SafetyThreshold
    IN  /\ batchSize \in 1..Max(1, requestedMax)
        /\ spare >= 2 => planCost <= spare
        /\ planCost > spare => batchSize = 1

C34_Witness ==
  pc[1] = "planned" /\ TokensLeft = 13 /\ requestedMax = 100 /\ batchSize = 1

====
